---- MODULE Spec2Model ----
(***************************************************************************)
(* mrng_to_rdp.py: conversion of an mRemoteNG connection tree into one     *)
(* .rdp profile per connection.                                            *)
(*                                                                         *)
(* Text is modelled as a sequence of one-character strings, so that        *)
(* str.split, str.startswith, str.splitlines and str.join are computed on  *)
(* characters.  An attribute mapping (node.attrib, props) is a function    *)
(* whose domain is the set of attribute names that are present.            *)
(***************************************************************************)
EXTENDS Naturals, Sequences, FiniteSets, TLC

VARIABLES
    \* ---- resolve_props called on its own (SpecResolve)
    r_node,               \* node.attrib of the node passed to resolve_props
    r_inherited,          \* the inherited mapping passed to resolve_props
    r_props,              \* the mapping resolve_props returned
    r_done,               \* resolve_props has returned
    \* ---- update_or_write called on its own (SpecMerge)
    m_outfile,            \* the target file: [exists, text]
    m_new_lines,          \* the new_lines argument
    m_before,             \* the target file as it was before the last call
    m_calls,              \* number of update_or_write calls made
    \* ---- one run of main() (Spec)
    pc,                   \* position of main()
    argv,                 \* the command line: [prompt, default_gateway]
    typed,                \* what the user will type at the prompts
    tree,                 \* the parsed document: [parent, attrib]
    interactive_creds,    \* module global, line 17
    connections_summary,  \* module global, line 15
    cursor,               \* position of main's loop over root.findall(".//Node")
    stack,                \* pending walk(node, inherited) calls, innermost first
    files,                \* outdir: file name -> [exists, text]
    readme,               \* README.md: [exists, text]
    keychain,             \* the Keychain: set of [server, account, password]
    commands,             \* the `security` commands run, in order
    written_by,           \* file name -> the nodes write_connection wrote it for
    calls,                \* the nodes write_connection was called for, in order
    failure               \* what raised out of main(), "none" if nothing did

r_vars == <<r_node, r_inherited, r_props, r_done>>
m_vars == <<m_outfile, m_new_lines, m_before, m_calls>>
run_vars == <<pc, argv, typed, tree, interactive_creds, connections_summary,
              cursor, stack, files, readme, keychain, commands, written_by,
              calls, failure>>
vars == <<r_vars, m_vars, run_vars>>

-----------------------------------------------------------------------------
\* String literals of the source, character by character.

COMMENT_GENERATED == <<";"," ","G","e","n","e","r","a","t","e","d"," ","f","r","o","m"," ","m","R","e","m","o","t","e","N","G">>
COMMENT_KEYCHAIN == <<";"," ","C","r","e","d","e","n","t","i","a","l","s"," ","s","t","o","r","e","d"," ","i","n"," ","m","a","c","O","S"," ","K","e","y","c","h","a","i","n">>
FULL_ADDRESS == <<"f","u","l","l"," ","a","d","d","r","e","s","s",":","s",":">>
USERNAME == <<"u","s","e","r","n","a","m","e",":","s",":">>
ADMIN_SESSION == <<"a","d","m","i","n","i","s","t","r","a","t","i","v","e"," ","s","e","s","s","i","o","n",":","i",":">>
GATEWAY_HOSTNAME == <<"g","a","t","e","w","a","y","h","o","s","t","n","a","m","e",":","s",":">>
GATEWAY_USAGE == <<"g","a","t","e","w","a","y","u","s","a","g","e","m","e","t","h","o","d",":","i",":","1">>
GATEWAY_USERNAME == <<"g","a","t","e","w","a","y","u","s","e","r","n","a","m","e",":","s",":">>
DEFAULT_PORT == <<"3","3","8","9">>
TRUE_TOKEN == <<"t","r","u","e">>
FALSE_TOKEN == <<"f","a","l","s","e">>
NONE == <<"n","o","n","e">>
PROMPT_PLACEHOLDER == <<"(","p","r","o","m","p","t",")">>
DEFAULT_NAME == <<"c","o","n","n","e","c","t","i","o","n">>
RDP_EXT == <<".","r","d","p">>
EMPTY == << >>

\* FIELDS, in the order the source lists them.
FIELDS == <<"Hostname", "Username", "Domain", "Port",
            "RDGatewayHostname", "RDGatewayUsername", "ConnectToConsole">>

FieldSet == {FIELDS[i] : i \in 1..Len(FIELDS)}

\* f"Inherit{field}"
InheritName(field) ==
    CASE field = "Hostname" -> "InheritHostname"
      [] field = "Username" -> "InheritUsername"
      [] field = "Domain" -> "InheritDomain"
      [] field = "Port" -> "InheritPort"
      [] field = "RDGatewayHostname" -> "InheritRDGatewayHostname"
      [] field = "RDGatewayUsername" -> "InheritRDGatewayUsername"
      [] field = "ConnectToConsole" -> "InheritConnectToConsole"

\* dict.get(key, default)
Get(map, key, default) == IF key \in DOMAIN map THEN map[key] ELSE default

\* dict[key] = value
Put(map, key, value) ==
    [k \in DOMAIN map \cup {key} |-> IF k = key THEN value ELSE map[k]]

\* {} : the mapping with no key
EmptyMap == [k \in {} |-> EMPTY]

-----------------------------------------------------------------------------
\* XML inheritance resolution

\* A flag read as any present value counts as set (the mutation of inherit_flag).
inherit_flag_present(attrib, field) == InheritName(field) \in DOMAIN attrib

\* node.attrib.get(f"Inherit{field}", "false") == "true"
inherit_flag(attrib, field) ==
    Get(attrib, InheritName(field), FALSE_TOKEN) = TRUE_TOKEN

\* The loop of resolve_props from FIELDS[i] on, props being the mapping so far.
RECURSIVE resolve_from(_, _, _)
resolve_from(attrib, props, i) ==
    IF i > Len(FIELDS) THEN props
    ELSE LET field == FIELDS[i]
         IN  IF ~inherit_flag(attrib, field) /\ field \in DOMAIN attrib
             THEN resolve_from(attrib, Put(props, field, attrib[field]), i + 1)
             ELSE resolve_from(attrib, props, i + 1)

\* resolve_props(node, inherited): props = inherited.copy(), then the loop.
resolve_props(attrib, inherited) == resolve_from(attrib, inherited, 1)

-----------------------------------------------------------------------------
\* Text primitives of Python, on character sequences.

COLON == ":"
NEWLINE == "\n"

\* Index of the first c in s at or after position i, 0 when there is none.
FindFrom(s, c, i) ==
    LET at == {j \in i..Len(s) : s[j] = c}
    IN  IF at = {} THEN 0 ELSE CHOOSE j \in at : \A k \in at : j <= k

\* s.split(c, 1)[0]: s up to the first c, all of s when it holds none.
SplitFirst(s, c) ==
    LET at == FindFrom(s, c, 1)
    IN  IF at = 0 THEN s ELSE SubSeq(s, 1, at - 1)

\* line.startswith(prefix)
StartsWith(line, prefix) ==
    /\ Len(prefix) <= Len(line)
    /\ SubSeq(line, 1, Len(prefix)) = prefix

\* text.splitlines() for the terminator "\n" (read_text hands "\r\n" and "\r"
\* over as "\n"): a final terminator ends the last line and starts no new one.
RECURSIVE SplitLinesFrom(_, _)
SplitLinesFrom(text, i) ==
    IF i > Len(text) THEN << >>
    ELSE LET at == FindFrom(text, NEWLINE, i)
         IN  IF at = 0 THEN << SubSeq(text, i, Len(text)) >>
             ELSE << SubSeq(text, i, at - 1) >> \o SplitLinesFrom(text, at + 1)

splitlines(text) == SplitLinesFrom(text, 1)

\* "\n".join(lines)
RECURSIVE join(_)
join(lines) ==
    IF lines = << >> THEN EMPTY
    ELSE IF Len(lines) = 1 THEN lines[1]
    ELSE lines[1] \o <<NEWLINE>> \o join(Tail(lines))

-----------------------------------------------------------------------------
\* Credential helpers.  interactive_creds holds None or a typed string per
\* entry; the source only tests the entries for truth, and None and "" are both
\* false, so both are the empty string here.

NoCreds == [sys_user |-> EMPTY, sys_pass |-> EMPTY,
            gw_user |-> EMPTY, gw_pass |-> EMPTY]

system_username(props, creds) ==
    IF creds.sys_user # EMPTY THEN creds.sys_user
    ELSE LET user == Get(props, "Username", EMPTY)
             domain == Get(props, "Domain", EMPTY)
         IN  IF user # EMPTY /\ domain # EMPTY
             THEN domain \o <<"\\">> \o user
             ELSE user

gateway_username(props, creds) ==
    IF creds.gw_user # EMPTY THEN creds.gw_user
    ELSE Get(props, "RDGatewayUsername", EMPTY)

-----------------------------------------------------------------------------
\* RDP builder

\* props.get("RDGatewayHostname"): None when absent, and None is as false as "".
gw_host_of(props) == Get(props, "RDGatewayHostname", EMPTY)

\* host after the port suffix is applied (lines 119-123)
host_of(props) ==
    LET host == Get(props, "Hostname", EMPTY)
        port == Get(props, "Port", DEFAULT_PORT)
    IN  IF host # EMPTY /\ port # DEFAULT_PORT
        THEN host \o <<COLON>> \o port
        ELSE host

\* The lines list of build_rdp_lines (lines 129-142).
rdp_lines(host, user, console, gw_host, gw_user) ==
    << COMMENT_GENERATED,
       COMMENT_KEYCHAIN,
       FULL_ADDRESS \o host,
       USERNAME \o user,
       ADMIN_SESSION \o console >>
    \o (IF gw_host # EMPTY
        THEN << GATEWAY_HOSTNAME \o gw_host, GATEWAY_USAGE >>
        ELSE << >>)
    \o (IF gw_user # EMPTY THEN << GATEWAY_USERNAME \o gw_user >> ELSE << >>)

\* f"{1 if props.get('ConnectToConsole') == 'true' else 0}"
console_of(props) ==
    IF Get(props, "ConnectToConsole", EMPTY) = TRUE_TOKEN THEN <<"1">> ELSE <<"0">>

\* gw_host or "none"
or_none(gw_host) == IF gw_host # EMPTY THEN gw_host ELSE NONE

\* build_rdp_lines(props): (lines, host, user, gw_host or "none")
build_rdp_lines(props, creds) ==
    [lines |-> rdp_lines(host_of(props), system_username(props, creds),
                         console_of(props), gw_host_of(props),
                         gateway_username(props, creds)),
     host |-> host_of(props),
     user |-> system_username(props, creds),
     gw |-> or_none(gw_host_of(props))]

-----------------------------------------------------------------------------
\* Re-entrant file update

NoFile == [exists |-> FALSE, text |-> EMPTY]
FileOf(text) == [exists |-> TRUE, text |-> text]

\* key = line.split(":", 1)[0] + ":"   (line 165)
key_of(line) == Append(SplitFirst(line, COLON), COLON)

\* Index of the first line of existing that starts with prefix, 0 if none.
RECURSIVE FirstMatch(_, _, _)
FirstMatch(existing, prefix, i) ==
    IF i > Len(existing) THEN 0
    ELSE IF StartsWith(existing[i], prefix) THEN i
    ELSE FirstMatch(existing, prefix, i + 1)

\* The nested replace(prefix, value), as the list it leaves in existing.
replace(existing, prefix, value) ==
    LET at == FirstMatch(existing, prefix, 1)
    IN  IF at # 0
        THEN [existing EXCEPT ![at] = value]
        ELSE Append(existing, value)

\* for line in new_lines: replace(key, line)   -- from new_lines[i] on
RECURSIVE merge_from(_, _, _)
merge_from(existing, new_lines, i) ==
    IF i > Len(new_lines) THEN existing
    ELSE merge_from(replace(existing, key_of(new_lines[i]), new_lines[i]),
                    new_lines, i + 1)

\* A plain overwrite with the new lines (the mutation of update_or_write).
update_or_write_overwrite(outfile, new_lines) == FileOf(join(new_lines))

\* update_or_write(outfile, new_lines), as the file it leaves.
update_or_write(outfile, new_lines) ==
    IF outfile.exists
    THEN FileOf(join(merge_from(splitlines(outfile.text), new_lines, 1)))
    ELSE FileOf(join(new_lines))

-----------------------------------------------------------------------------
\* Bounds of the explored inputs.

MaxNodeAttrs == 2      \* attributes set on the node given to resolve_props
MaxInherited == 1      \* fields present in the inherited mapping
MaxTextLen == 4        \* characters of a pre-existing target file
MaxNewLen == 4         \* characters, line ends included, of free-form new lines
MaxCalls == 2          \* update_or_write calls on the same target

\* All mappings from at most n of the keys to the values.
MapsUpTo(keys, values, n) ==
    UNION {[d -> values] : d \in {x \in SUBSET keys : Cardinality(x) <= n}}

\* All sequences over chars of length at most n.
SeqsUpTo(chars, n) == UNION {[1..k -> chars] : k \in 0..n}

-----------------------------------------------------------------------------
\* The three parts of the state at rest, for the specifications that do not
\* exercise them.

ResolveIdle ==
    /\ r_node = EmptyMap
    /\ r_inherited = EmptyMap
    /\ r_props = EmptyMap
    /\ r_done = FALSE

MergeIdle ==
    /\ m_outfile = NoFile
    /\ m_new_lines = << >>
    /\ m_before = NoFile
    /\ m_calls = 0

RunIdle ==
    /\ pc = "idle"
    /\ argv = [prompt |-> FALSE, default_gateway |-> EMPTY]
    /\ typed = NoCreds
    /\ tree = [parent |-> << >>, attrib |-> << >>]
    /\ interactive_creds = NoCreds
    /\ connections_summary = << >>
    /\ cursor = 1
    /\ stack = << >>
    /\ files = EmptyMap
    /\ readme = NoFile
    /\ keychain = {}
    /\ commands = << >>
    /\ written_by = EmptyMap
    /\ calls = << >>
    /\ failure = "none"

-----------------------------------------------------------------------------
\* SpecResolve: resolve_props applied once to a node and an inherited mapping.

AttribNames == FieldSet \cup {InheritName(f) : f \in FieldSet}

InitResolve ==
    /\ r_node \in MapsUpTo(AttribNames, {TRUE_TOKEN, FALSE_TOKEN}, MaxNodeAttrs)
    /\ r_inherited \in MapsUpTo(FieldSet, {<<"k">>}, MaxInherited)
    /\ r_props = EmptyMap
    /\ r_done = FALSE
    /\ MergeIdle
    /\ RunIdle

Resolve ==
    /\ ~r_done
    /\ r_props' = resolve_props(r_node, r_inherited)
    /\ r_done' = TRUE
    /\ UNCHANGED <<r_node, r_inherited, m_vars, run_vars>>

NextResolve == Resolve

SpecResolve == InitResolve /\ [][NextResolve]_vars

-----------------------------------------------------------------------------
\* SpecMerge: update_or_write called MaxCalls times with the same new_lines on a
\* target that is absent or holds any short text.  The new lines are the lines
\* of any short text, or the lines build_rdp_lines makes of RenderedProps.

TextChars == {"a", COLON, NEWLINE}

\* Attribute sets whose rendering is merged as well.
RenderedProps ==
    { EmptyMap,
      [Hostname |-> <<"h">>, RDGatewayHostname |-> <<"g">>] }

RenderedLines == {build_rdp_lines(p, NoCreds).lines : p \in RenderedProps}

InitMerge ==
    /\ m_outfile \in {NoFile} \cup {FileOf(t) : t \in SeqsUpTo(TextChars, MaxTextLen)}
    /\ m_new_lines \in {splitlines(t) : t \in SeqsUpTo(TextChars, MaxNewLen)}
                         \cup RenderedLines
    /\ m_before = NoFile
    /\ m_calls = 0
    /\ ResolveIdle
    /\ RunIdle

UpdateOrWrite ==
    /\ m_calls < MaxCalls
    /\ m_before' = m_outfile
    /\ m_outfile' = update_or_write(m_outfile, m_new_lines)
    /\ m_calls' = m_calls + 1
    /\ UNCHANGED <<m_new_lines, r_vars, run_vars>>

NextMerge == UpdateOrWrite

SpecMerge == InitMerge /\ [][NextMerge]_vars

-----------------------------------------------------------------------------
\* Keychain integration.  A `security` command is recorded with its exit status:
\* delete-internet-password exits 0 exactly when it found the entry, and
\* add-internet-password succeeds or fails as the Keychain decides (add_ok).

SameEntry(e, server, account) == e.server = server /\ e.account = account

Command(cmd, server, account, ok) ==
    [cmd |-> cmd, server |-> server, account |-> account, ok |-> ok]

\* keychain_store with check=True on the delete too (the mutation of keychain_store).
keychain_store_checked_delete(kc, cmds, server, account, password, add_ok) ==
    LET existed == \E e \in kc : SameEntry(e, server, account)
        deleted == {e \in kc : ~SameEntry(e, server, account)}
        cmds1 == Append(cmds, Command("delete", server, account, existed))
    IN  IF ~existed
        THEN [keychain |-> kc, commands |-> cmds1, raised |-> TRUE]
        ELSE [keychain |-> IF add_ok
                           THEN deleted \cup {[server |-> server, account |-> account,
                                               password |-> password]}
                           ELSE deleted,
              commands |-> Append(cmds1, Command("add", server, account, add_ok)),
              raised |-> ~add_ok]

\* keychain_store(server, account, password): the delete, its exit status
\* ignored, then the add with check=True.
keychain_store(kc, cmds, server, account, password, add_ok) ==
    LET existed == \E e \in kc : SameEntry(e, server, account)
        deleted == {e \in kc : ~SameEntry(e, server, account)}
        cmds1 == Append(cmds, Command("delete", server, account, existed))
    IN  [keychain |-> IF add_ok
                      THEN deleted \cup {[server |-> server, account |-> account,
                                          password |-> password]}
                      ELSE deleted,
         commands |-> Append(cmds1, Command("add", server, account, add_ok)),
         raised |-> ~add_ok]

-----------------------------------------------------------------------------
\* Connection writer

\* outdir / f"{name}.rdp", as the file's name in outdir
outfile_name(name) == name \o RDP_EXT

\* The summary record appended at lines 205-210.
summary_record(name, r) ==
    [name |-> name, host |-> r.host,
     user |-> IF r.user # EMPTY THEN r.user ELSE PROMPT_PLACEHOLDER,
     gateway |-> r.gw]

\* How outfile.write_text / read_text may end: "ok"; "error", an OSError before
\* the target is touched; "truncated", an OSError after the target was opened
\* for writing and emptied.
WriteOutcomes == {"ok", "error", "truncated"}

\* write_connection works on st = [files, keychain, commands, summary, raised],
\* raised telling what has propagated out of it so far ("none": nothing).

\* update_or_write(outfile, lines) at line 188, ending as w says.
write_profile(st, f, lines, w) ==
    CASE w = "ok" ->
           [st EXCEPT !.files = Put(st.files, f,
                                    update_or_write(Get(st.files, f, NoFile), lines))]
      [] w = "truncated" ->
           [st EXCEPT !.files = Put(st.files, f, FileOf(EMPTY)), !.raised = "write"]
      [] OTHER -> [st EXCEPT !.raised = "write"]

\* st after a keychain_store call that returned k.
stored(st, k) ==
    [st EXCEPT !.keychain = k.keychain, !.commands = k.commands,
               !.raised = IF k.raised THEN "keychain" ELSE "none"]

\* Lines 191-196: the system credentials.
store_system(st, r, creds, a1) ==
    IF st.raised = "none" /\ creds.sys_pass # EMPTY /\ r.host # EMPTY
    THEN stored(st, keychain_store(st.keychain, st.commands,
                                   SplitFirst(r.host, COLON),
                                   creds.sys_user, creds.sys_pass, a1))
    ELSE st

\* Lines 198-203: the gateway credentials.
store_gateway(st, r, creds, a2) ==
    IF st.raised = "none" /\ creds.gw_pass # EMPTY /\ r.gw # NONE
    THEN stored(st, keychain_store(st.keychain, st.commands, r.gw,
                                   creds.gw_user, creds.gw_pass, a2))
    ELSE st

\* Lines 205-210: the summary record.
append_summary(st, name, r) ==
    IF st.raised = "none"
    THEN [st EXCEPT !.summary = Append(st.summary, summary_record(name, r))]
    ELSE st

\* The body of write_connection once build_rdp_lines has returned r.
write_built(st, name, r, creds, w, a1, a2) ==
    append_summary(
        store_gateway(
            store_system(write_profile(st, outfile_name(name), r.lines, w),
                         r, creds, a1),
            r, creds, a2),
        name, r)

\* write_connection(name, props, outdir), given how the file write (w) and the
\* two Keychain adds (a1 system, a2 gateway) end.
write_connection(st, name, props, creds, w, a1, a2) ==
    write_built(st, name, build_rdp_lines(props, creds), creds, w, a1, a2)

-----------------------------------------------------------------------------
\* README generator

CONTAINER == <<"C","o","n","t","a","i","n","e","r">>
CONNECTION == <<"C","o","n","n","e","c","t","i","o","n">>
README_TITLE == <<"#"," ","R","D","P"," ","C","o","n","v","e","r","s","i","o","n"," ","O","v","e","r","v","i","e","w">>
README_NOTE == <<"C","r","e","d","e","n","t","i","a","l","s"," ","s","t","o","r","e","d"," ","i","n"," ","m","a","c","O","S"," ","K","e","y","c","h","a","i","n",".">>
README_HEAD == <<"|"," ","N","a","m","e"," ","|"," ","H","o","s","t"," ","|"," ","U","s","e","r","n","a","m","e"," ","|"," ","G","a","t","e","w","a","y"," ","|">>
README_RULE == <<"|","-","-","-","-","-","-","|","-","-","-","-","-","-","|","-","-","-","-","-","-","-","-","-","-","|","-","-","-","-","-","-","-","-","-","-","|">>

README_HEADER == <<README_TITLE, EMPTY, README_NOTE, EMPTY, README_HEAD, README_RULE>>

\* f"| {c['name']} | {c['host']} | {c['user']} | {c['gateway']} |"
readme_row(c) ==
    <<"|", " ">> \o c.name \o <<" ", "|", " ">> \o c.host \o <<" ", "|", " ">>
        \o c.user \o <<" ", "|", " ">> \o c.gateway \o <<" ", "|">>

\* write_readme(outdir), as the README.md it leaves.
write_readme(summary) ==
    FileOf(join(README_HEADER \o [i \in 1..Len(summary) |-> readme_row(summary[i])]))

-----------------------------------------------------------------------------
\* The parsed document.  Nodes are the <Node> elements, numbered 1..MaxNodes in
\* document order; tree.parent[n] is the enclosing <Node>, 0 for a child of the
\* document's root element; tree.attrib[n] is node.attrib.

MaxNodes == 4          \* <Node> elements in the document

Nodes == 1..Len(tree.parent)

\* n and the <Node> elements enclosing it
RECURSIVE SelfAndAncestors(_, _)
SelfAndAncestors(parent, n) ==
    IF n = 0 THEN {}
    ELSE IF parent[n] < n THEN {n} \cup SelfAndAncestors(parent, parent[n])
    ELSE {n}

Ancestors(n) == SelfAndAncestors(tree.parent, n) \ {n}

\* The numbering is the document order: each node is a child of the root
\* element, of the node before it, or of one enclosing the node before it.
IsDocumentOrder(parent) ==
    /\ \A i \in 1..Len(parent) : parent[i] < i
    /\ \A i \in 2..Len(parent) :
          parent[i] = 0 \/ parent[i] \in SelfAndAncestors(parent, i - 1)

\* node.attrib of the nodes of the explored documents
NodeChoices ==
    { [Type |-> CONTAINER],
      [Type |-> CONTAINER, Hostname |-> <<"h">>, RDGatewayHostname |-> <<"g">>],
      [Type |-> CONNECTION, Hostname |-> <<"x">>, InheritHostname |-> TRUE_TOKEN,
       ConnectToConsole |-> TRUE_TOKEN],
      [Type |-> CONNECTION, Name |-> <<"b">>, Hostname |-> <<"k">>, Port |-> <<"9">>,
       Username |-> <<"u">>, Domain |-> <<"d">>, RDGatewayUsername |-> <<"v">>] }

Trees ==
    { [parent |-> p, attrib |-> a] :
        p \in {q \in [1..MaxNodes -> 0..(MaxNodes - 1)] : IsDocumentOrder(q)},
        a \in [1..MaxNodes -> NodeChoices] }

\* node.attrib.get("Type") == ...
IsContainer(n) == Get(tree.attrib[n], "Type", EMPTY) = CONTAINER
IsConnection(n) == Get(tree.attrib[n], "Type", EMPTY) = CONNECTION

\* node.attrib.get("Name", "connection")
NameOf(n) == Get(tree.attrib[n], "Name", DEFAULT_NAME)

\* node.findall("Node"): the direct children of n, in document order
RECURSIVE ChildrenFrom(_, _)
ChildrenFrom(n, i) ==
    IF i > Len(tree.parent) THEN << >>
    ELSE IF tree.parent[i] = n THEN <<i>> \o ChildrenFrom(n, i + 1)
    ELSE ChildrenFrom(n, i + 1)

Children(n) == ChildrenFrom(n, n + 1)

-----------------------------------------------------------------------------
\* The command lines and prompt answers explored.  typed holds the answers as
\* prompt_credentials keeps them (the two user names after .strip()).

AllTyped == [sys_user |-> <<"S">>, sys_pass |-> <<"p">>,
             gw_user |-> <<"G">>, gw_pass |-> <<"q">>]
SystemTyped == [sys_user |-> <<"S">>, sys_pass |-> <<"p">>,
                gw_user |-> EMPTY, gw_pass |-> EMPTY]

RunConfigs ==
    { [argv |-> [prompt |-> FALSE, default_gateway |-> EMPTY], typed |-> NoCreds],
      [argv |-> [prompt |-> TRUE, default_gateway |-> EMPTY], typed |-> AllTyped],
      [argv |-> [prompt |-> TRUE, default_gateway |-> EMPTY], typed |-> SystemTyped],
      [argv |-> [prompt |-> FALSE, default_gateway |-> <<"w">>], typed |-> NoCreds] }

-----------------------------------------------------------------------------
\* Spec: one run of main() on a document, into an empty output directory.

Init ==
    /\ pc = "start"
    /\ \E c \in RunConfigs : argv = c.argv /\ typed = c.typed
    /\ tree \in Trees
    /\ interactive_creds = NoCreds
    /\ connections_summary = << >>
    /\ cursor = 1
    /\ stack = << >>
    /\ files = EmptyMap
    /\ readme = NoFile
    /\ keychain = {}
    /\ commands = << >>
    /\ written_by = EmptyMap
    /\ calls = << >>
    /\ failure = "none"
    /\ ResolveIdle
    /\ MergeIdle

\* An exception caught around write_connection, the walk going on (the mutation
\* of after_raise).
after_raise_swallowed(raised) == "loop"

\* Where main() is after a walk step: nothing catches what write_connection
\* raises, neither walk (219-227) nor main (281-285).
after_raise(raised) == IF raised # "none" THEN "aborted" ELSE "loop"

\* parser.parse_args(): the parser knows xml, outdir and -p/--prompt only, so a
\* command line with --default-gateway ends in parser.error (exit status 2).
ParseArgs ==
    /\ pc = "start"
    /\ pc' = IF argv.default_gateway # EMPTY THEN "usage_error"
             ELSE IF argv.prompt THEN "prompt" ELSE "loop"
    /\ UNCHANGED <<argv, typed, tree, interactive_creds, connections_summary,
                   cursor, stack, files, readme, keychain, commands, written_by,
                   calls, failure, r_vars, m_vars>>

\* prompt_credentials()
PromptCredentials ==
    /\ pc = "prompt"
    /\ interactive_creds' = typed
    /\ pc' = "loop"
    /\ UNCHANGED <<argv, typed, tree, connections_summary, cursor, stack, files,
                   readme, keychain, commands, written_by, calls, failure,
                   r_vars, m_vars>>

NoContainerIn(from, to) == \A i \in from..to : ~IsContainer(i)

\* for node in root.findall(".//Node"): if Type == "Container": walk(node, {})
\* -- up to the next call of walk
StartWalk ==
    /\ pc = "loop"
    /\ stack = << >>
    /\ \E c \in cursor..Len(tree.parent) :
          /\ IsContainer(c)
          /\ NoContainerIn(cursor, c - 1)
          /\ stack' = << [node |-> c, inherited |-> EmptyMap] >>
          /\ cursor' = c + 1
    /\ UNCHANGED <<pc, argv, typed, tree, interactive_creds, connections_summary,
                   files, readme, keychain, commands, written_by, calls, failure,
                   r_vars, m_vars>>

\* The call walk(node, inherited) on top of the stack: its node, its props
\* (line 220), and what write_connection leaves (lines 222-224) given how the
\* externals end.
WalkNode == Head(stack).node

WalkProps == resolve_props(tree.attrib[WalkNode], Head(stack).inherited)

WalkState == [files |-> files, keychain |-> keychain, commands |-> commands,
              summary |-> connections_summary, raised |-> "none"]

WalkOutcome(w, a1, a2) ==
    IF IsConnection(WalkNode)
    THEN write_connection(WalkState, NameOf(WalkNode), WalkProps,
                          interactive_creds, w, a1, a2)
    ELSE WalkState

\* for child in node.findall("Node"): walk(child, props, outdir) -- the calls
\* to make once the call on top of the stack has handled its own node
child_calls(kids, props) ==
    [i \in 1..Len(kids) |-> [node |-> kids[i], inherited |-> props]]

\* The nodes a profile was written for, with node n added for file f.
wrote(by, f, n) == Put(by, f, Get(by, f, {}) \cup {n})

\* The state after one step of walk that left o, up to its recursive calls.
WalkTo(o, w) ==
    /\ files' = o.files
    /\ keychain' = o.keychain
    /\ commands' = o.commands
    /\ connections_summary' = o.summary
    /\ failure' = o.raised
    /\ pc' = after_raise(o.raised)
    /\ calls' = IF IsConnection(WalkNode) THEN Append(calls, WalkNode) ELSE calls
    /\ written_by' = IF IsConnection(WalkNode) /\ w = "ok"
                     THEN wrote(written_by, outfile_name(NameOf(WalkNode)), WalkNode)
                     ELSE written_by
    /\ stack' = IF o.raised # "none" THEN << >>
                ELSE child_calls(Children(WalkNode), WalkProps) \o Tail(stack)
    /\ UNCHANGED <<argv, typed, tree, interactive_creds, cursor, readme,
                   r_vars, m_vars>>

WalkStep(w, a1, a2) == \E o \in {WalkOutcome(w, a1, a2)} : WalkTo(o, w)

\* walk(): a step in which nothing raises
Walk ==
    /\ pc = "loop"
    /\ stack # << >>
    /\ WalkStep("ok", TRUE, TRUE)
    /\ failure' = "none"

\* walk(): update_or_write raises OSError
WalkWriteError ==
    /\ pc = "loop"
    /\ stack # << >>
    /\ \E w \in WriteOutcomes \ {"ok"} : WalkStep(w, TRUE, TRUE)
    /\ failure' = "write"

\* walk(): a Keychain add raises CalledProcessError
WalkKeychainError ==
    /\ pc = "loop"
    /\ stack # << >>
    /\ \E a1, a2 \in BOOLEAN : WalkStep("ok", a1, a2)
    /\ failure' = "keychain"

\* write_readme(outdir), once the loop is over
Finish ==
    /\ pc = "loop"
    /\ stack = << >>
    /\ NoContainerIn(cursor, Len(tree.parent))
    /\ readme' = write_readme(connections_summary)
    /\ pc' = "done"
    /\ UNCHANGED <<argv, typed, tree, interactive_creds, connections_summary,
                   cursor, stack, files, keychain, commands, written_by, calls,
                   failure, r_vars, m_vars>>

Next ==
    \/ ParseArgs
    \/ PromptCredentials
    \/ StartWalk
    \/ Walk
    \/ WalkWriteError
    \/ WalkKeychainError
    \/ Finish

Spec == Init /\ [][Next]_vars

-----------------------------------------------------------------------------
\* Properties of resolve_props (checked under SpecResolve)

\* Inherit<field> is the literal "true" on the node.
FlagIsTrue(attrib, field) ==
    /\ InheritName(field) \in DOMAIN attrib
    /\ attrib[InheritName(field)] = TRUE_TOKEN

\* C2: for each of the 7 fields, resolve_props returns the node's own value when
\* Inherit<F> is absent or not "true" and F is present on the node, whatever the
\* inherited value; otherwise it returns what the inherited mapping holds for F,
\* absent when it is absent there.
C2_InheritancePrecedence ==
    r_done =>
        \A f \in FieldSet :
            IF ~FlagIsTrue(r_node, f) /\ f \in DOMAIN r_node
            THEN f \in DOMAIN r_props /\ r_props[f] = r_node[f]
            ELSE /\ (f \in DOMAIN r_props) <=> (f \in DOMAIN r_inherited)
                 /\ f \in DOMAIN r_inherited => r_props[f] = r_inherited[f]

\* A node that carries its own Hostname next to InheritHostname="true", resolved
\* against an inherited Hostname: the inherited value is returned.
C2_Witness ==
    /\ r_done
    /\ r_node = [Hostname |-> FALSE_TOKEN, InheritHostname |-> TRUE_TOKEN]
    /\ r_inherited = [Hostname |-> <<"k">>]
    /\ r_props = [Hostname |-> <<"k">>]

-----------------------------------------------------------------------------
\* Properties of update_or_write (checked under SpecMerge)

\* C1: calling update_or_write twice with the same lines built by
\* build_rdp_lines leaves, after the second call, the content the first call
\* left, whether the first call created the file or merged into an existing one.
C1_Idempotent ==
    (m_calls = 2 /\ m_new_lines \in RenderedLines) => m_outfile = m_before

\* The key prefix of a line: its text up to and including the first ':', all of
\* its text when it holds none.
KeyPrefix(line) ==
    IF FindFrom(line, COLON, 1) = 0 THEN line
    ELSE SubSeq(line, 1, FindFrom(line, COLON, 1))

\* The line starts with the key prefix of no new line.
Foreign(line, new_lines) ==
    \A j \in 1..Len(new_lines) : ~StartsWith(line, KeyPrefix(new_lines[j]))

\* C4 as stated: every line of the existing file that starts with the key prefix
\* of no new line is, after update_or_write, still in the file with the same
\* content at the same index.
C4_ForeignLinesKept ==
    (m_calls >= 1 /\ m_before.exists) =>
        \A i \in 1..Len(splitlines(m_before.text)) :
            Foreign(splitlines(m_before.text)[i], m_new_lines) =>
                /\ i <= Len(splitlines(m_outfile.text))
                /\ splitlines(m_outfile.text)[i] = splitlines(m_before.text)[i]

\* C4 as amended: the same, except for an empty line that ends the existing
\* file when no new line is appended after it; the file is then one line
\* shorter, being rewritten without a final newline.
C4_ForeignLinesKeptButFinalEmpty ==
    (m_calls >= 1 /\ m_before.exists) =>
        \A i \in 1..Len(splitlines(m_before.text)) :
            Foreign(splitlines(m_before.text)[i], m_new_lines) =>
                \/ /\ i <= Len(splitlines(m_outfile.text))
                   /\ splitlines(m_outfile.text)[i] = splitlines(m_before.text)[i]
                \/ /\ i = Len(splitlines(m_before.text))
                   /\ splitlines(m_before.text)[i] = EMPTY
                   /\ Len(splitlines(m_outfile.text)) = i - 1

\* One call on a file whose first line is replaced by a different new line and
\* whose second line, not empty, is foreign.
C4_Witness ==
    /\ m_calls = 1
    /\ m_before.exists
    /\ Len(splitlines(m_before.text)) = 2
    /\ ~Foreign(splitlines(m_before.text)[1], m_new_lines)
    /\ Foreign(splitlines(m_before.text)[2], m_new_lines)
    /\ splitlines(m_before.text)[2] # EMPTY
    /\ splitlines(m_outfile.text)[1] # splitlines(m_before.text)[1]
    /\ splitlines(m_outfile.text)[2] = splitlines(m_before.text)[2]

\* The list update_or_write holds after the first k new lines.
MergedUpTo(existing, new_lines, k) ==
    merge_from(existing, SubSeq(new_lines, 1, k), 1)

\* The indices of the lines whose key prefix is that of line.
SameKey(lines, line) == {j \in 1..Len(lines) : KeyPrefix(lines[j]) = KeyPrefix(line)}

First(indices) == CHOOSE j \in indices : \A k \in indices : j <= k

\* What C5 says of one new line: it replaces the first line with its key prefix,
\* at that line's index, nothing else and the line count unchanged; with no
\* such line it is appended at the end.
ReplacedInPlace(pre, post, line) ==
    IF SameKey(pre, line) # {}
    THEN /\ Len(post) = Len(pre)
         /\ \A j \in 1..Len(pre) :
               post[j] = IF j = First(SameKey(pre, line)) THEN line ELSE pre[j]
    ELSE post = Append(pre, line)

\* C5: each new line, in turn, replaces in place the first existing line that
\* has its key prefix, no copy of it being appended, and is appended only when
\* no existing line has its key prefix.
C5_ReplaceInPlace ==
    (m_calls >= 1 /\ m_before.exists) =>
        /\ m_outfile.text =
              join(MergedUpTo(splitlines(m_before.text), m_new_lines, Len(m_new_lines)))
        /\ \A k \in 1..Len(m_new_lines) :
              ReplacedInPlace(
                  MergedUpTo(splitlines(m_before.text), m_new_lines, k - 1),
                  MergedUpTo(splitlines(m_before.text), m_new_lines, k),
                  m_new_lines[k])

-----------------------------------------------------------------------------
\* Properties of a run of main() (checked under Spec)

\* The attribute set of n resolved along its whole chain of enclosing nodes,
\* each node receiving its parent's set, the outermost the empty one.
RECURSIVE ChainProps(_)
ChainProps(n) ==
    IF n = 0 THEN EmptyMap
    ELSE resolve_props(tree.attrib[n], ChainProps(tree.parent[n]))

Connections == {n \in Nodes : IsConnection(n)}

\* The Connection nodes that lie under at least one Container.
UnderContainer == {n \in Connections : \E a \in Ancestors(n) : IsContainer(a)}

\* The Connection nodes enclosed by Containers only, and by at least one.
InContainersOnly ==
    {n \in UnderContainer : \A a \in Ancestors(n) : IsContainer(a)}

UniqueName(n) == \A m \in Connections : NameOf(m) = NameOf(n) => m = n

ProfileOf(n) == Get(files, outfile_name(NameOf(n)), NoFile)

\* The file has a line that starts with the key prefix of line, and the first
\* such line is line.
HoldsLine(file, line) ==
    /\ FirstMatch(splitlines(file.text), key_of(line), 1) # 0
    /\ splitlines(file.text)[FirstMatch(splitlines(file.text), key_of(line), 1)] = line

Count(seq, x) == Cardinality({i \in 1..Len(seq) : seq[i] = x})

\* C3: after a complete run into an empty directory, the full address, username
\* and administrative session lines of the profile of every uniquely named
\* Connection under (possibly nested) Containers are those rendered from the
\* attribute set resolved along its whole ancestor chain.
C3_ResolvedAlongChain ==
    pc = "done" =>
        \A n \in InContainersOnly :
            UniqueName(n) =>
                /\ ProfileOf(n).exists
                /\ \A k \in 3..5 :
                      HoldsLine(ProfileOf(n),
                                build_rdp_lines(ChainProps(n), interactive_creds).lines[k])

\* The gateway a connection is to end with when a fallback is configured.
GatewayWithFallback(n) ==
    IF gw_host_of(ChainProps(n)) # EMPTY THEN gw_host_of(ChainProps(n))
    ELSE argv.default_gateway

\* C6: when a fallback gateway host is configured for the run, a connection
\* whose resolved RDGatewayHostname is absent or empty gets the fallback as its
\* gateway, in its profile and in the summary, and a connection with a resolved
\* gateway keeps its own.
C6_FallbackGateway ==
    (argv.default_gateway # EMPTY /\ pc \in {"done", "usage_error"}) =>
        \A n \in InContainersOnly :
            /\ HoldsLine(ProfileOf(n), GATEWAY_HOSTNAME \o GatewayWithFallback(n))
            /\ \E i \in 1..Len(connections_summary) :
                  /\ connections_summary[i].name = NameOf(n)
                  /\ connections_summary[i].gateway = GatewayWithFallback(n)

\* C7: in one run every Connection under at least one Container is processed
\* exactly once: one write_connection call, one SummaryRecord, one README row.
C7_ProcessedOnce ==
    pc = "done" =>
        /\ \A n \in UnderContainer : Count(calls, n) = 1
        /\ \A n \in Nodes \ UnderContainer : Count(calls, n) = 0
        /\ Len(connections_summary) = Cardinality(UnderContainer)
        /\ Len(splitlines(readme.text)) = Len(README_HEADER) + Cardinality(UnderContainer)

\* C8: after a complete run into an empty directory there are as many .rdp
\* files as Connection nodes walked, and no file was written for more than one
\* Connection node.
C8_OneFilePerConnection ==
    pc = "done" =>
        /\ Cardinality({f \in DOMAIN files : files[f].exists})
              = Cardinality({calls[i] : i \in 1..Len(calls)})
        /\ \A f \in DOMAIN written_by : Cardinality(written_by[f]) <= 1

\* C9: once a profile write or a Keychain add has failed, the run is over: the
\* failing step appends no SummaryRecord and touches no profile but the failing
\* connection's; afterwards no file is written, nothing is stored, no record is
\* appended and README.md is never written; the files written before stay.
C9_FailureStopsRun ==
    [][ failure' # "none" =>
          /\ connections_summary' = connections_summary
          /\ readme' = readme
          /\ ~readme.exists
          /\ failure # "none" =>
                /\ files' = files
                /\ keychain' = keychain
                /\ commands' = commands
                /\ calls' = calls
          /\ failure = "none" =>
                \A f \in DOMAIN files :
                    f # outfile_name(NameOf(WalkNode)) =>
                        /\ f \in DOMAIN files'
                        /\ files'[f] = files[f]
      ]_vars

\* A Keychain add failed after an earlier connection went through, its profile
\* on disk, with a connection still unvisited.
C9_Witness ==
    /\ failure = "keychain"
    /\ pc = "aborted"
    /\ Len(connections_summary) >= 1
    /\ \E f \in DOMAIN files : files[f].exists /\ files[f].text # EMPTY
    /\ \E n \in UnderContainer : Count(calls, n) = 0
    /\ ~readme.exists

\* C10: every keychain_store call runs the delete and then the add for the same
\* (server, account), once each; the add follows whether the delete succeeded
\* or failed, and only a failed add is raised.
C10_DeleteThenAdd ==
    /\ Len(commands) % 2 = 0
    /\ \A i \in 1..Len(commands) :
          IF i % 2 = 1
          THEN /\ commands[i].cmd = "delete"
               /\ i + 1 <= Len(commands)
               /\ commands[i + 1].cmd = "add"
               /\ commands[i + 1].server = commands[i].server
               /\ commands[i + 1].account = commands[i].account
          ELSE /\ commands[i].cmd = "add"
               /\ ~commands[i].ok => (i = Len(commands) /\ failure = "keychain")
    /\ failure = "keychain" =>
          /\ commands # << >>
          /\ ~commands[Len(commands)].ok

\* A failed delete was followed by a successful add, a later delete of the same
\* entry succeeded, and nothing was raised.
C10_Witness ==
    /\ failure = "none"
    /\ Len(commands) >= 4
    /\ ~commands[1].ok
    /\ commands[2].ok
    /\ \E i \in 3..Len(commands) :
          /\ commands[i].cmd = "delete"
          /\ commands[i].ok
          /\ commands[i].server = commands[1].server
          /\ commands[i].account = commands[1].account

====
